---- MODULE Spec2Model ----
(***************************************************************************)
(* Model of cpp/serve/sampler.cc: SampleTopPFromProb and the CPUSampler    *)
(* (BatchSampleTokens, BatchVerifyDraftTokens, CopyProbsToCPU).            *)
(*                                                                         *)
(* Floating-point values are modelled as exact rationals [n, d] kept in    *)
(* lowest terms.  d = 0 is the NaN that 0.0 / 0.0 produces: every ordered  *)
(* comparison with it is false, and arithmetic on it yields NaN.           *)
(***************************************************************************)
EXTENDS Integers, Sequences, FiniteSets, TLC

(***************************************************************************)
(* Numbers                                                                 *)
(***************************************************************************)
RECURSIVE GCD(_, _)
GCD(a, b) == IF b = 0 THEN a ELSE GCD(b, a % b)

Abs(x) == IF x < 0 THEN -x ELSE x

NaN == [n |-> 0, d |-> 0]

\* the rational n/d (d > 0) in lowest terms
Rat(n, d) ==
  LET g == GCD(Abs(n), d) IN
  IF n = 0 THEN [n |-> 0, d |-> 1] ELSE [n |-> n \div g, d |-> d \div g]

Zero == Rat(0, 1)
One == Rat(1, 1)

IsNaN(a) == a.d = 0

Lt(a, b) == ~IsNaN(a) /\ ~IsNaN(b) /\ a.n * b.d < b.n * a.d
Ge(a, b) == ~IsNaN(a) /\ ~IsNaN(b) /\ a.n * b.d >= b.n * a.d
Gt(a, b) == Lt(b, a)

Add(a, b) ==
  IF IsNaN(a) \/ IsNaN(b) THEN NaN ELSE Rat(a.n * b.d + b.n * a.d, a.d * b.d)

Sub(a, b) ==
  IF IsNaN(a) \/ IsNaN(b) THEN NaN ELSE Rat(a.n * b.d - b.n * a.d, a.d * b.d)

\* a / b for a, b >= 0.  The only zero divisor the sampler can meet is a sum
\* of non-negative terms that are all zero, so the dividend is then zero as
\* well and the quotient is 0.0 / 0.0 = NaN.
Div(a, b) ==
  IF IsNaN(a) \/ IsNaN(b) \/ b.n = 0 THEN NaN ELSE Rat(a.n * b.d, a.d * b.n)

\* std::max(x, 0.0f): returns its first argument unless it compares below
\* the second
Max0(x) == IF Lt(x, Zero) THEN Zero ELSE x

(***************************************************************************)
(* SampleTopPFromProb                                                      *)
(* A distribution row is a function 0 .. ndata-1 -> number.                *)
(***************************************************************************)
ndataOf(p_prob) == Cardinality(DOMAIN p_prob)

\* the pair a sampling pass returns; (-1, -1) is "no selection"
Pair(first, second) == [first |-> first, second |-> second]
NoSelection == Pair(Rat(-1, 1), -1)

\* constexpr double one = 1.0f - 1e-5f, as the rational 99999/100000
one == Rat(99999, 100000)

\* top_p == 0: the argmax loop, from position i on
RECURSIVE ArgmaxScan(_, _, _, _)
ArgmaxScan(p_prob, i, max_prob, argmax_pos) ==
  IF i >= ndataOf(p_prob) THEN argmax_pos
  ELSE IF Gt(p_prob[i], max_prob)
       THEN ArgmaxScan(p_prob, i + 1, p_prob[i], i)
       ELSE ArgmaxScan(p_prob, i + 1, max_prob, argmax_pos)

\* p_output_prob[i] = i == argmax_pos ? 1.0 : 0.0
OneHotOutput(ndata, argmax_pos) ==
  [i \in 0 .. ndata - 1 |-> IF i = argmax_pos THEN One ELSE Zero]

\* top_p >= one: the running-sum loop, from position i on; falling out of
\* the loop is ICHECK(false)
RECURSIVE FullScan(_, _, _, _)
FullScan(p_prob, i, prob_sum, uniform_sample) ==
  IF i >= ndataOf(p_prob) THEN [fatal |-> TRUE, pair |-> NoSelection]
  ELSE LET s == Add(prob_sum, p_prob[i]) IN
       IF Ge(s, uniform_sample)
       THEN [fatal |-> FALSE, pair |-> Pair(p_prob[i], i)]
       ELSE FullScan(p_prob, i + 1, s, uniform_sample)

\* FilterScan leaving the loop once cutoff_sum exceeds the cutoff itself
RECURSIVE FilterScanEarlyBreak(_, _, _, _, _)
FilterScanEarlyBreak(p_prob, i, cuttoff, cutoff_sum, data) ==
  IF i >= ndataOf(p_prob) THEN data
  ELSE IF Ge(p_prob[i], cuttoff)
       THEN LET s == Add(cutoff_sum, p_prob[i])
                d == Append(data, Pair(p_prob[i], i))
            IN IF Gt(s, cuttoff) THEN d
               ELSE FilterScanEarlyBreak(p_prob, i + 1, cuttoff, s, d)
       ELSE FilterScanEarlyBreak(p_prob, i + 1, cuttoff, cutoff_sum, data)

\* the filter loop of sample_top_p_with_filter, from position i on
RECURSIVE FilterScan(_, _, _, _, _)
FilterScan(p_prob, i, cuttoff, cutoff_sum, data) ==
  IF i >= ndataOf(p_prob) THEN data
  ELSE IF Ge(p_prob[i], cuttoff)
       THEN LET s == Add(cutoff_sum, p_prob[i])
                d == Append(data, Pair(p_prob[i], i))
            IN IF Gt(s, Sub(One, cuttoff)) THEN d
               ELSE FilterScan(p_prob, i + 1, cuttoff, s, d)
       ELSE FilterScan(p_prob, i + 1, cuttoff, cutoff_sum, data)

\* fcmp: lhs.first > rhs.first
fcmp(lhs, rhs) == Gt(lhs.first, rhs.first)

\* x put before the first element it compares above
RECURSIVE InsertSorted(_, _)
InsertSorted(sorted, x) ==
  IF sorted = << >> THEN << x >>
  ELSE IF fcmp(x, Head(sorted)) THEN << x >> \o sorted
       ELSE << Head(sorted) >> \o InsertSorted(Tail(sorted), x)

\* std::sort(data.begin(), data.end(), fcmp) on a short range, where it is
\* an insertion sort: descending, equal elements keep their order
RECURSIVE SortData(_)
SortData(data) ==
  IF data = << >> THEN << >>
  ELSE InsertSorted(SortData(SubSeq(data, 1, Len(data) - 1)), data[Len(data)])

\* the "compute top_p_sum" loop, from element k on; it overwrites the
\* probabilities it passes with running sums
RECURSIVE TopPSumLoop(_, _, _, _, _)
TopPSumLoop(data, k, cum_sum_prob, top_p_sum, top_p) ==
  IF k > Len(data) \/ ~Lt(cum_sum_prob, top_p)
  THEN [data |-> data, cum_sum_prob |-> cum_sum_prob, top_p_sum |-> top_p_sum]
  ELSE LET prob == data[k].first
           c == Add(cum_sum_prob, prob)
       IN TopPSumLoop([data EXCEPT ![k].first = c], k + 1, c,
                      Add(top_p_sum, prob), top_p)

\* the selection loop returning the candidate's share of top_p_sum
RECURSIVE SelectLoopRenormalized(_, _, _, _, _)
SelectLoopRenormalized(data, k, last_cum_sum_prob, top_p_sum, uniform_sample) ==
  IF k > Len(data)
  THEN Pair(Div(Sub(data[Len(data)].first, last_cum_sum_prob), top_p_sum),
            data[Len(data)].second)
  ELSE IF Lt(uniform_sample, Div(data[k].first, top_p_sum))
       THEN Pair(Div(Sub(data[k].first, last_cum_sum_prob), top_p_sum),
                 data[k].second)
       ELSE SelectLoopRenormalized(data, k + 1, data[k].first, top_p_sum,
                                   uniform_sample)

\* the final selection loop, from element k on
RECURSIVE SelectLoop(_, _, _, _, _)
SelectLoop(data, k, last_cum_sum_prob, top_p_sum, uniform_sample) ==
  IF k > Len(data)
  THEN Pair(Sub(data[Len(data)].first, last_cum_sum_prob), data[Len(data)].second)
  ELSE IF Lt(uniform_sample, Div(data[k].first, top_p_sum))
       THEN Pair(Sub(data[k].first, last_cum_sum_prob), data[k].second)
       ELSE SelectLoop(data, k + 1, data[k].first, top_p_sum, uniform_sample)

\* if (cum_sum_prob < top_p && cuttoff != 0.0f) return std::make_pair(-1, -1)
NeverInsufficient(cum_sum_prob, top_p, cuttoff) == FALSE
Insufficient(cum_sum_prob, top_p, cuttoff) ==
  Lt(cum_sum_prob, top_p) /\ cuttoff # Zero

\* the candidates a filter pass collects, before sorting
FilterCandidates(p_prob, cuttoff) == FilterScan(p_prob, 0, cuttoff, Zero, << >>)

sample_top_p_with_filter(p_prob, top_p, uniform_sample, cuttoff) ==
  LET data == SortData(FilterCandidates(p_prob, cuttoff)) IN
  IF Len(data) = 0 THEN NoSelection
  ELSE IF Lt(uniform_sample, Div(data[1].first, top_p))
  THEN Pair(data[1].first, data[1].second)
  ELSE LET r == TopPSumLoop(data, 1, Zero, Zero, top_p) IN
       IF Insufficient(r.cum_sum_prob, top_p, cuttoff) THEN NoSelection
       ELSE SelectLoop(r.data, 1, Zero, r.top_p_sum, uniform_sample)

\* the initial cutoff top_p / 1024
FirstCutoff(top_p) == Div(top_p, Rat(1024, 1))

\* The result of one call: the returned pair, the row written to
\* output_prob_dist[unit_offset] (<< >> when output_prob_dist is nullptr),
\* and whether an ICHECK failed.
SampleResult(pair, dist, fatal) == [pair |-> pair, dist |-> dist, fatal |-> fatal]

SampleTopPFromProb(p_prob, top_p, uniform_sample, want_dist) ==
  LET ndata == ndataOf(p_prob) IN
  IF top_p = Zero
  THEN LET argmax_pos == ArgmaxScan(p_prob, 0, Zero, -1) IN
       SampleResult(Pair(One, argmax_pos),
                    IF want_dist THEN OneHotOutput(ndata, argmax_pos) ELSE << >>,
                    FALSE)
  ELSE LET dist == IF want_dist THEN p_prob ELSE << >> IN
       IF Ge(top_p, one)
       THEN LET r == FullScan(p_prob, 0, Zero, uniform_sample) IN
            SampleResult(r.pair, dist, r.fatal)
       ELSE LET first_try ==
                  sample_top_p_with_filter(p_prob, top_p, uniform_sample,
                                           FirstCutoff(top_p))
                fallback ==
                  sample_top_p_with_filter(p_prob, top_p, uniform_sample, Zero)
            IN IF first_try.second >= 0
               THEN SampleResult(first_try, dist, FALSE)
               ELSE SampleResult(fallback, dist, ~(fallback.second >= 0))

(***************************************************************************)
(* State                                                                   *)
(***************************************************************************)
VARIABLES
  sample_call,   \* the arguments of the last direct SampleTopPFromProb call
  sample_ret     \* ... and what it returned

sample_vars == << sample_call, sample_ret >>

VARIABLES
  probs_host_,     \* CPUSampler::probs_host_: [defined, shape]
  fatal,           \* an ICHECK / CHECK of the sampler failed: the process aborted
  copy_call,       \* the last CopyProbsToCPU call: arguments, cache before, outcome
  max_num_tokens   \* the largest row count CopyProbsToCPU was asked for so far

cache_vars == << probs_host_, fatal, copy_call, max_num_tokens >>

VARIABLES
  batch_call,          \* the arguments of the batch call in progress
  probs_host,          \* the rows of the view CopyProbsToCPU returned
  rngs,                \* per request: the draws its generator has yielded
  pc,                  \* per task of the parallel loop: where it stands
  sample_result,       \* per task: the local sample_result
  sampled_tokens,      \* BatchSampleTokens: the vector it returns
  output_prob_dist,    \* BatchSampleTokens: *output_prob_dist
  output_token_probs,  \* BatchSampleTokens: *output_token_probs
  returned             \* whether the batch call has returned

batch_vars == << batch_call, probs_host, rngs, pc, sample_result, sampled_tokens,
                 output_prob_dist, output_token_probs, returned >>

VARIABLES
  request_mstates,     \* per sequence: the tokens committed to its model state
  accepted_tokens,     \* BatchVerifyDraftTokens: the vector of lists it returns
  cur_token_idx,       \* per sequence task: the draft position it stands at
  verify_log           \* per sequence: the positions its task has decided, in
                       \* the order it decided them, each with the outcome

verify_vars == << request_mstates, accepted_tokens, cur_token_idx, verify_log >>

vars == << sample_vars, cache_vars, batch_vars, verify_vars >>

(***************************************************************************)
(* Inputs                                                                  *)
(***************************************************************************)
\* width of the distribution rows that are enumerated exhaustively
VocabSize == 3
\* those rows have entries k / ProbDen
ProbDen == 2
\* uniform draws are k / DrawDen, 0 <= k < DrawDen
DrawDen == 3

Tokens == 0 .. VocabSize - 1
Draws == {Rat(k, DrawDen) : k \in 0 .. DrawDen - 1}

RECURSIVE RowSumFrom(_, _)
RowSumFrom(row, i) ==
  IF i >= ndataOf(row) THEN Zero ELSE Add(row[i], RowSumFrom(row, i + 1))
RowSum(row) == RowSumFrom(row, 0)
Normalized(row) == RowSum(row) = One

\* every row of width VocabSize on the grid, normalized or not
GridRows == [Tokens -> {Rat(k, ProbDen) : k \in 0 .. ProbDen}]
\* rows of width 4 with three entries below the cutoffs top_p / 1024
TinyRows ==
  {[t \in 0 .. 3 |-> IF t = big THEN Rat(1097, 1100) ELSE Rat(1, 1100)] :
     big \in 0 .. 3}
\* the row [0.5, 0.3, 0.2]
ExampleRow == [t \in 0 .. 2 |-> IF t = 0 THEN Rat(5, 10)
                                 ELSE IF t = 1 THEN Rat(3, 10) ELSE Rat(2, 10)]
SampleRows == GridRows \cup TinyRows \cup {ExampleRow}

\* the draws of a direct call: the grid, 0.1 and one draw close to 1
SampleDraws == Draws \cup {Rat(1, 10), Rat(9999, 10000)}

TopPs == {Zero, Rat(1, 2), Rat(7, 10), Rat(999, 1000), One}

(***************************************************************************)
(* CPUSampler::CopyProbsToCPU                                              *)
(***************************************************************************)
\* NDArray probs_host_{nullptr}
Undefined == [defined |-> FALSE, shape |-> << 0, 0 >>]
NDArrayEmpty(shape) == [defined |-> TRUE, shape |-> shape]

\* a device tensor: where it lives and its (n, v) shape
Devices == {"cuda", "cpu"}
kDLCPU == "cpu"
Tensor(device, shape) == [device |-> device, shape |-> shape]

\* ICHECK(probs_device->device.device_type != kDLCPU)
DeviceCheck(probs_device) == probs_device.device # kDLCPU

\* if (probs_host_.defined()) ICHECK_EQ(probs_host_->shape[1], probs_device->shape[1])
WidthCheckAlwaysPasses(host, probs_device) == TRUE
WidthCheck(host, probs_device) ==
  host.defined => host.shape[2] = probs_device.shape[2]

\* int64_t init_size = probs_host_.defined() ? probs_host_->shape[0] : 32
InitSizeFresh(host) == 32
InitSize(host) == IF host.defined THEN host.shape[1] ELSE 32

\* while (init_size < num_tokens) init_size *= 2
RECURSIVE GrowSize(_, _)
GrowSize(init_size, num_tokens) ==
  IF init_size < num_tokens THEN GrowSize(init_size * 2, num_tokens) ELSE init_size

\* The outcome of one call on cache `host`: whether a check failed, the cache
\* afterwards, whether NDArray::Empty ran, and the shape of the returned view.
CopyProbsToCPU(host, probs_device) ==
  IF ~DeviceCheck(probs_device) \/ ~WidthCheck(host, probs_device)
  THEN [fatal |-> TRUE, host |-> host, allocated |-> FALSE, view |-> << 0, 0 >>]
  ELSE LET num_tokens == probs_device.shape[1]
           vocab_size == probs_device.shape[2]
           init_size == GrowSize(InitSize(host), num_tokens)
           allocated == ~host.defined \/ init_size # host.shape[1]
           after == IF allocated THEN NDArrayEmpty(<< init_size, vocab_size >>)
                    ELSE host
       IN [fatal |-> ~(num_tokens <= after.shape[1]),
           host |-> after, allocated |-> allocated,
           view |-> << num_tokens, vocab_size >>]

(***************************************************************************)
(* CPUSampler::BatchSampleTokens                                           *)
(***************************************************************************)
\* const float eps_ = 1e-5
eps_ == Rat(1, 100000)

\* generation_cfg[i]->temperature < eps_ ? 0.0 : generation_cfg[i]->top_p
ConfiguredTopP(cfg) == cfg.top_p
EffectiveTopP(cfg) == IF Lt(cfg.temperature, eps_) THEN Zero ELSE cfg.top_p

\* an optional output vector: nullptr, or a vector resized to n
Absent == [given |-> FALSE, data |-> << >>]
Resized(want, n, fill) ==
  IF want THEN [given |-> TRUE, data |-> [i \in 0 .. n - 1 |-> fill]] ELSE Absent

\* the slot of the output vectors that the task of row i writes
SlotZero(i) == 0
Slot(i) == i

\* the generator the task of row i draws from
Generator(i) == i

(***************************************************************************)
(* CPUSampler::BatchVerifyDraftTokens                                      *)
(***************************************************************************)
\* request_mstates[i]->CommitToken(token): the token joins the tokens
\* committed to the sequence's model state
CommitToken(mstate, token) == Append(mstate, token)

\* global_p_probs + (verify_start + cur_token_idx) * vocab_size
RowIndexFromZero(verify_start, token_idx) == token_idx
RowIndex(verify_start, token_idx) == verify_start + token_idx

\* if (p_value >= q_value)
AcceptsOnlyAbove(p_value, q_value) == Gt(p_value, q_value)
AcceptsWithoutDraw(p_value, q_value) == Ge(p_value, q_value)

\* if (r < p_value / (q_value + eps_))
AcceptsOnDrawOrEqual(r, p_value, q_value) ==
  ~Gt(r, Div(p_value, Add(q_value, eps_)))
AcceptsOnDrawInverse(r, p_value, q_value) ==
  Lt(r, Div(Add(q_value, eps_), p_value))
AcceptsOnDraw(r, p_value, q_value) == Lt(r, Div(p_value, Add(q_value, eps_)))

\* the first residual loop: max(p_probs[j] - p_qdist[j], 0.0f), and sum_v
Clipped(p_probs, p_qdist) == [j \in DOMAIN p_probs |-> Max0(Sub(p_probs[j], p_qdist[j]))]

\* the two residual loops: the row as it stands after p_probs[j] /= sum_v
Residual(p_probs, p_qdist) ==
  LET clipped == Clipped(p_probs, p_qdist)
      sum_v == RowSum(clipped)
  IN [j \in DOMAIN p_probs |-> Div(clipped[j], sum_v)]

\* on rejection: the token given to CommitToken, and the one pushed onto
\* accepted_tokens[i]
CommittedOnReject(cur_token, new_token) == new_token
PushedReplacement(cur_token, new_token) == new_token
PushedOnReject(cur_token, new_token) == cur_token

(***************************************************************************)
(* The state after construction                                            *)
(***************************************************************************)
NoCall == [prob |-> << >>]
NoRet == [fatal |-> FALSE]

SampleIdle == sample_call = NoCall /\ sample_ret = NoRet

NoCopy == [fatal |-> FALSE]
CacheIdle ==
  /\ probs_host_ = Undefined
  /\ fatal = FALSE
  /\ copy_call = NoCopy
  /\ max_num_tokens = 0

NoBatch == [kind |-> "none"]
BatchIdle ==
  /\ batch_call = NoBatch
  /\ probs_host = << >>
  /\ rngs = << >>
  /\ pc = << >>
  /\ sample_result = << >>
  /\ sampled_tokens = << >>
  /\ output_prob_dist = Absent
  /\ output_token_probs = Absent
  /\ returned = FALSE

VerifyIdle ==
  /\ request_mstates = << >>
  /\ accepted_tokens = << >>
  /\ cur_token_idx = << >>
  /\ verify_log = << >>

(***************************************************************************)
(* SpecCache: CopyProbsToCPU called with a sequence of batch shapes        *)
(***************************************************************************)
\* batches have 0, 10, ..., 10 * MaxTens rows, or just fill / overflow 32
MaxTens == 7
NumTokens == {10 * k : k \in 0 .. MaxTens} \cup {32, 33}
Widths == {VocabSize, VocabSize + 1}

CallCopyProbsToCPU ==
  /\ ~fatal
  /\ \E device \in Devices, num_tokens \in NumTokens, vocab_size \in Widths :
       LET probs_device == Tensor(device, << num_tokens, vocab_size >>)
           r == CopyProbsToCPU(probs_host_, probs_device)
       IN /\ probs_host_' = r.host
          /\ fatal' = r.fatal
          /\ copy_call' = [fatal |-> r.fatal, probs_device |-> probs_device,
                           before |-> probs_host_, allocated |-> r.allocated,
                           view |-> r.view]
          /\ max_num_tokens' = IF num_tokens > max_num_tokens THEN num_tokens
                               ELSE max_num_tokens
          /\ UNCHANGED << sample_vars, batch_vars, verify_vars >>

InitCache == SampleIdle /\ CacheIdle /\ BatchIdle /\ VerifyIdle
NextCache == CallCopyProbsToCPU
SpecCache == InitCache /\ [][NextCache]_vars

(***************************************************************************)
(* SpecSample: SampleTopPFromProb called directly                          *)
(***************************************************************************)
CallSampleTopPFromProb ==
  /\ SampleIdle
  /\ \E prob \in SampleRows, top_p \in TopPs, uniform_sample \in SampleDraws,
           want_dist \in BOOLEAN :
       /\ sample_call' = [prob |-> prob, top_p |-> top_p,
                          uniform_sample |-> uniform_sample,
                          output_prob_dist |-> want_dist]
       /\ sample_ret' = SampleTopPFromProb(prob, top_p, uniform_sample, want_dist)
       /\ UNCHANGED << cache_vars, batch_vars, verify_vars >>

InitSample == SampleIdle /\ CacheIdle /\ BatchIdle /\ VerifyIdle
NextSample == CallSampleTopPFromProb
SpecSample == InitSample /\ [][NextSample]_vars

(***************************************************************************)
(* SpecBatch: one BatchSampleTokens call and the tasks of its parallel loop *)
(***************************************************************************)
\* the row that puts 1/2 on a and on b (all of it on a when a = b)
Spread(a, b) ==
  [t \in Tokens |-> IF t = a /\ t = b THEN One
                    ELSE IF t = a \/ t = b THEN Rat(1, 2) ELSE Zero]

\* at most MaxBatch rows per BatchSampleTokens call
MaxBatch == 2
\* the requests a batch is made of: a row and its generation configuration
BatchRequests ==
  {[row |-> Spread(0, 1), cfg |-> [temperature |-> Rat(1, 200000), top_p |-> One]],
   [row |-> Spread(0, 0), cfg |-> [temperature |-> One, top_p |-> Zero]],
   [row |-> Spread(1, 2), cfg |-> [temperature |-> One, top_p |-> Rat(7, 10)]],
   [row |-> Spread(1, 2), cfg |-> [temperature |-> One, top_p |-> One]]}
\* the draws of a batch: the least and the greatest of the grid
BatchDraws == {Zero, Rat(DrawDen - 1, DrawDen)}

Tasks == DOMAIN pc
Running == batch_call.kind # "none" /\ ~returned /\ ~fatal

\* BatchSampleTokens up to the parallel loop
CallBatchSampleTokens ==
  /\ batch_call = NoBatch /\ ~fatal
  /\ \E n \in 0 .. MaxBatch, device \in Devices, want_dist \in BOOLEAN,
          want_probs \in BOOLEAN :
       \E reqs \in [0 .. n - 1 -> BatchRequests] :
         LET probs_device == Tensor(device, << n, VocabSize >>)
             rows == [i \in 0 .. n - 1 |-> reqs[i].row]
             cfg == [i \in 0 .. n - 1 |-> reqs[i].cfg]
             r == CopyProbsToCPU(probs_host_, probs_device)
         IN /\ batch_call' = [kind |-> "sample", probs_device |-> probs_device,
                              rows |-> rows, generation_cfg |-> cfg]
            /\ probs_host_' = r.host
            /\ fatal' = r.fatal
            /\ copy_call' = [fatal |-> r.fatal, probs_device |-> probs_device,
                             before |-> probs_host_, allocated |-> r.allocated,
                             view |-> r.view]
            /\ max_num_tokens' = IF n > max_num_tokens THEN n ELSE max_num_tokens
            /\ IF r.fatal
               THEN UNCHANGED << probs_host, rngs, pc, sample_result, sampled_tokens,
                                 output_prob_dist, output_token_probs >>
               ELSE /\ probs_host' = rows
                    /\ rngs' = [i \in 0 .. n - 1 |-> << >>]
                    /\ pc' = [i \in 0 .. n - 1 |-> "sample"]
                    /\ sample_result' = [i \in 0 .. n - 1 |-> NoSelection]
                    /\ sampled_tokens' = [i \in 0 .. n - 1 |-> 0]
                    /\ output_prob_dist' = Resized(want_dist, n, << >>)
                    /\ output_token_probs' = Resized(want_probs, n, Zero)
            /\ UNCHANGED << sample_vars, returned, verify_vars >>

\* task i: draw from the request's generator and call SampleTopPFromProb,
\* which writes output_prob_dist[unit_offset]
TaskSample(i) ==
  \E u \in BatchDraws :
    LET g == Generator(i)
        r == SampleTopPFromProb(probs_host[i],
                                EffectiveTopP(batch_call.generation_cfg[i]), u,
                                output_prob_dist.given)
    IN /\ Running /\ batch_call.kind = "sample" /\ pc[i] = "sample"
       /\ rngs' = [rngs EXCEPT ![g] = Append(@, u)]
       /\ output_prob_dist' =
            IF output_prob_dist.given
            THEN [output_prob_dist EXCEPT !.data[i] = r.dist]
            ELSE output_prob_dist
       /\ sample_result' = [sample_result EXCEPT ![i] = r.pair]
       /\ fatal' = r.fatal
       /\ pc' = [pc EXCEPT ![i] = "store_token"]
       /\ UNCHANGED << sample_vars, probs_host_, copy_call, max_num_tokens,
                       batch_call, probs_host, sampled_tokens,
                       output_token_probs, returned, verify_vars >>

\* task i: sampled_tokens[i] = sample_result.second
TaskStoreToken(i) ==
  /\ Running /\ batch_call.kind = "sample" /\ pc[i] = "store_token"
  /\ sampled_tokens' = [sampled_tokens EXCEPT ![Slot(i)] = sample_result[i].second]
  /\ pc' = [pc EXCEPT ![i] = "store_prob"]
  /\ UNCHANGED << sample_vars, cache_vars, batch_call, probs_host, rngs,
                  sample_result, output_prob_dist, output_token_probs, returned,
                  verify_vars >>

\* task i: if (output_token_probs) (*output_token_probs)[i] = sample_result.first
TaskStoreProb(i) ==
  /\ Running /\ batch_call.kind = "sample" /\ pc[i] = "store_prob"
  /\ output_token_probs' =
       IF output_token_probs.given
       THEN [output_token_probs EXCEPT !.data[Slot(i)] = sample_result[i].first]
       ELSE output_token_probs
  /\ pc' = [pc EXCEPT ![i] = "done"]
  /\ UNCHANGED << sample_vars, cache_vars, batch_call, probs_host, rngs,
                  sample_result, sampled_tokens, output_prob_dist, returned,
                  verify_vars >>

\* the join of the parallel loop and the return
ReturnBatchSampleTokens ==
  /\ Running /\ batch_call.kind = "sample"
  /\ \A i \in Tasks : pc[i] = "done"
  /\ returned' = TRUE
  /\ UNCHANGED << sample_vars, cache_vars, batch_call, probs_host, rngs, pc,
                  sample_result, sampled_tokens, output_prob_dist,
                  output_token_probs, verify_vars >>

InitBatch == SampleIdle /\ CacheIdle /\ BatchIdle /\ VerifyIdle
NextBatch ==
  \/ CallBatchSampleTokens
  \/ \E i \in Tasks : TaskSample(i)
  \/ \E i \in Tasks : TaskStoreToken(i)
  \/ \E i \in Tasks : TaskStoreProb(i)
  \/ ReturnBatchSampleTokens
SpecBatch == InitBatch /\ [][NextBatch]_vars


(***************************************************************************)
(* SpecVerify: one BatchVerifyDraftTokens call and its per-sequence tasks  *)
(***************************************************************************)
\* at most MaxRows rows (draft positions of all sequences) per call
MaxRows == 2
\* cum_verify_lengths of two sequences: 0 <= a <= b <= MaxRows
CumVerifyLengths ==
  {[k \in 0 .. 2 |-> IF k = 0 THEN 0 ELSE IF k = 1 THEN a ELSE b] :
     a \in 0 .. MaxRows, b \in 0 .. MaxRows} \ 
  {c \in [0 .. 2 -> 0 .. MaxRows] : c[1] > c[2]}

\* a draft position: the target row, the draft distribution and the draft
\* token; the draft probability is the draft distribution's value at it
Position(p, q, token) == [p |-> p, q |-> q, token |-> token]
Positions ==
  {Position(Spread(0, 1), Spread(0, 1), 0),
   Position(Spread(0, 1), Spread(0, 0), 0),
   Position(Spread(1, 2), Spread(0, 0), 0),
   Position(Spread(0, 0), Spread(0, 1), 1),
   Position(Spread(1, 2), Spread(0, 1), 2),
   Position(Spread(0, 0), Spread(0, 1), 0)}
GenerationConfigs ==
  {[temperature |-> Zero, top_p |-> One],
   [temperature |-> One, top_p |-> Rat(7, 10)],
   [temperature |-> One, top_p |-> One]}

\* verify_start, verify_end and the draft length of sequence i
VerifyStart(i) == batch_call.cum_verify_lengths[i]
VerifyEnd(i) == batch_call.cum_verify_lengths[i + 1]
DraftLen(i) == VerifyEnd(i) - VerifyStart(i)

\* BatchVerifyDraftTokens up to the parallel loop
CallBatchVerifyDraftTokens ==
  /\ batch_call = NoBatch /\ ~fatal
  /\ \E cum \in CumVerifyLengths, device \in Devices :
       \E pos \in [0 .. cum[2] - 1 -> Positions],
          cfg \in [0 .. 1 -> GenerationConfigs] :
         LET n == cum[2]
             num_sequence == 2
             seqs == 0 .. num_sequence - 1
             len(i) == cum[i + 1] - cum[i]
             probs_device == Tensor(device, << n, VocabSize >>)
             r == CopyProbsToCPU(probs_host_, probs_device)
             rows == [k \in 0 .. n - 1 |-> pos[k].p]
         IN /\ batch_call' =
                 [kind |-> "verify", probs_device |-> probs_device, rows |-> rows,
                  cum_verify_lengths |-> cum, generation_cfg |-> cfg,
                  draft_output_tokens |->
                    [i \in seqs |-> [k \in 0 .. len(i) - 1 |-> pos[cum[i] + k].token]],
                  draft_output_token_prob |->
                    [i \in seqs |-> [k \in 0 .. len(i) - 1 |->
                                       pos[cum[i] + k].q[pos[cum[i] + k].token]]],
                  draft_output_prob_dist |->
                    [i \in seqs |-> [k \in 0 .. len(i) - 1 |-> pos[cum[i] + k].q]]]
            /\ probs_host_' = r.host
            /\ fatal' = r.fatal
            /\ copy_call' = [fatal |-> r.fatal, probs_device |-> probs_device,
                             before |-> probs_host_, allocated |-> r.allocated,
                             view |-> r.view]
            /\ max_num_tokens' = IF n > max_num_tokens THEN n ELSE max_num_tokens
            /\ IF r.fatal
               THEN UNCHANGED << probs_host, rngs, pc, verify_vars >>
               ELSE /\ probs_host' = rows
                    /\ rngs' = [i \in seqs |-> << >>]
                    /\ pc' = [i \in seqs |-> IF len(i) > 0 THEN "verify" ELSE "done"]
                    /\ request_mstates' = [i \in seqs |-> << >>]
                    /\ accepted_tokens' = [i \in seqs |-> << >>]
                    /\ cur_token_idx' = [i \in seqs |-> 0]
                    /\ verify_log' = [i \in seqs |-> << >>]
            /\ UNCHANGED << sample_vars, sample_result, sampled_tokens,
                            output_prob_dist, output_token_probs, returned >>

\* where the task of sequence i goes after it accepted a position
AfterAccept(i) == IF cur_token_idx[i] + 1 < DraftLen(i) THEN "verify" ELSE "done"
\* ... and after it rejected one: break
AfterRejectNextPosition(i) == AfterAccept(i)
AfterReject(i) == "done"

\* an accept that commits the draft token without returning it
AcceptWithoutPush(i, cur_token) ==
  /\ request_mstates' = [request_mstates EXCEPT ![i] = CommitToken(@, cur_token)]
  /\ UNCHANGED accepted_tokens
  /\ cur_token_idx' = [cur_token_idx EXCEPT ![i] = @ + 1]
  /\ pc' = [pc EXCEPT ![i] = AfterAccept(i)]

\* the task of sequence i accepts the draft token at its position
Accept(i, cur_token) ==
  /\ request_mstates' = [request_mstates EXCEPT ![i] = CommitToken(@, cur_token)]
  /\ accepted_tokens' = [accepted_tokens EXCEPT ![i] = Append(@, cur_token)]
  /\ cur_token_idx' = [cur_token_idx EXCEPT ![i] = @ + 1]
  /\ pc' = [pc EXCEPT ![i] = AfterAccept(i)]

Decided(i, outcome) ==
  verify_log' = [verify_log EXCEPT
                   ![i] = Append(@, [pos |-> cur_token_idx[i], outcome |-> outcome])]

\* task i at one draft position: the comparison of p_value with q_value
\* and, when it fails, the draw and the acceptance test
TaskVerify(i) ==
  LET p_probs == probs_host[RowIndex(VerifyStart(i), cur_token_idx[i])]
      cur_token == batch_call.draft_output_tokens[i][cur_token_idx[i]]
      q_value == batch_call.draft_output_token_prob[i][cur_token_idx[i]]
      p_value == p_probs[cur_token]
  IN /\ Running /\ batch_call.kind = "verify" /\ pc[i] = "verify"
     /\ IF AcceptsWithoutDraw(p_value, q_value)
        THEN Accept(i, cur_token) /\ Decided(i, "accept") /\ UNCHANGED rngs
        ELSE \E r \in BatchDraws :
               /\ rngs' = [rngs EXCEPT ![i] = Append(@, r)]
               /\ IF AcceptsOnDraw(r, p_value, q_value)
                  THEN Accept(i, cur_token) /\ Decided(i, "accept on draw")
                  ELSE /\ pc' = [pc EXCEPT ![i] = "residual"]
                       /\ Decided(i, "reject")
                       /\ UNCHANGED << request_mstates, accepted_tokens,
                                       cur_token_idx >>
     /\ UNCHANGED << sample_vars, cache_vars, batch_call, probs_host,
                     sample_result, sampled_tokens, output_prob_dist,
                     output_token_probs, returned >>

\* task i after a rejection: the row is overwritten with the residual
TaskResidual(i) ==
  LET row == RowIndex(VerifyStart(i), cur_token_idx[i])
      p_qdist == batch_call.draft_output_prob_dist[i][cur_token_idx[i]]
  IN /\ Running /\ batch_call.kind = "verify" /\ pc[i] = "residual"
     /\ probs_host' = [probs_host EXCEPT ![row] = Residual(@, p_qdist)]
     /\ pc' = [pc EXCEPT ![i] = "resample"]
     /\ UNCHANGED << sample_vars, cache_vars, batch_call, rngs, sample_result,
                     sampled_tokens, output_prob_dist, output_token_probs,
                     returned, verify_vars >>

\* task i after a rejection: a token is sampled from the overwritten row
\* and committed, the draft token is pushed, and the loop is left
TaskResample(i) ==
  \E u \in BatchDraws :
    LET row == RowIndex(VerifyStart(i), cur_token_idx[i])
        cur_token == batch_call.draft_output_tokens[i][cur_token_idx[i]]
        res == SampleTopPFromProb(probs_host[row],
                                  EffectiveTopP(batch_call.generation_cfg[i]),
                                  u, FALSE)
        new_token == res.pair.second
    IN /\ Running /\ batch_call.kind = "verify" /\ pc[i] = "resample"
       /\ rngs' = [rngs EXCEPT ![i] = Append(@, u)]
       /\ fatal' = res.fatal
       /\ IF res.fatal
          THEN UNCHANGED << pc, verify_vars >>
          ELSE /\ request_mstates' =
                    [request_mstates EXCEPT
                       ![i] = CommitToken(@, CommittedOnReject(cur_token, new_token))]
               /\ accepted_tokens' =
                    [accepted_tokens EXCEPT
                       ![i] = Append(@, PushedOnReject(cur_token, new_token))]
               /\ pc' = [pc EXCEPT ![i] = AfterReject(i)]
               /\ UNCHANGED << cur_token_idx, verify_log >>
       /\ UNCHANGED << sample_vars, probs_host_, copy_call, max_num_tokens,
                       batch_call, probs_host, sample_result, sampled_tokens,
                       output_prob_dist, output_token_probs, returned >>

\* the join of the parallel loop and the return
ReturnBatchVerifyDraftTokens ==
  /\ Running /\ batch_call.kind = "verify"
  /\ \A i \in Tasks : pc[i] = "done"
  /\ returned' = TRUE
  /\ UNCHANGED << sample_vars, cache_vars, batch_call, probs_host, rngs, pc,
                  sample_result, sampled_tokens, output_prob_dist,
                  output_token_probs, verify_vars >>

InitVerify == SampleIdle /\ CacheIdle /\ BatchIdle /\ VerifyIdle
NextVerify ==
  \/ CallBatchVerifyDraftTokens
  \/ \E i \in Tasks : TaskVerify(i)
  \/ \E i \in Tasks : TaskResidual(i)
  \/ \E i \in Tasks : TaskResample(i)
  \/ ReturnBatchVerifyDraftTokens
SpecVerify == InitVerify /\ [][NextVerify]_vars

(***************************************************************************)
(* SpecSampler: a CPUSampler that serves one call of either kind           *)
(***************************************************************************)
InitSampler == SampleIdle /\ CacheIdle /\ BatchIdle /\ VerifyIdle
NextSampler == NextBatch \/ NextVerify
SpecSampler == InitSampler /\ [][NextSampler]_vars

(***************************************************************************)
(* Claims about SampleTopPFromProb                                         *)
(***************************************************************************)
Called == sample_call # NoCall

\* the lowest index that holds the maximum of the row
FirstMaxIndex(row) ==
  CHOOSE i \in DOMAIN row :
    /\ \A j \in DOMAIN row : Ge(row[i], row[j])
    /\ \A j \in DOMAIN row : j < i => Lt(row[j], row[i])

\* C5: for every row and top_p = 0 the call returns probability 1.0 and the
\* lowest index of the row's maximum, and a requested output distribution
\* is one-hot at that index -- also for a row whose maximum is 0.
C5_ArgmaxEveryRow ==
  (Called /\ sample_call.top_p = Zero) =>
    LET m == FirstMaxIndex(sample_call.prob) IN
    /\ ~sample_ret.fatal
    /\ sample_ret.pair = Pair(One, m)
    /\ sample_call.output_prob_dist =>
         sample_ret.dist = [i \in DOMAIN sample_call.prob |->
                              IF i = m THEN One ELSE Zero]

\* C5 (reached): an all-zero row sampled with top_p = 0
C5_ZeroRowSampled ==
  /\ Called /\ sample_call.top_p = Zero
  /\ \A i \in DOMAIN sample_call.prob : sample_call.prob[i] = Zero
  /\ sample_ret.pair.second = -1

\* the sum of row[0 .. i]
RECURSIVE PrefixSum(_, _)
PrefixSum(row, i) == IF i < 0 THEN Zero ELSE Add(PrefixSum(row, i - 1), row[i])

FullRange == Called /\ Ge(sample_call.top_p, one) /\ Normalized(sample_call.prob)

\* C6 (as claimed): for a normalized row and top_p >= 1 - 1e-5, a draw of 0
\* returns the first index whose probability is nonzero, and any draw
\* returns the first index at which the running sum meets or exceeds it.
C6_FirstNonzeroAtZeroDraw ==
  FullRange =>
    LET row == sample_call.prob
        u == sample_call.uniform_sample
        i == sample_ret.pair.second
    IN /\ ~sample_ret.fatal
       /\ i \in DOMAIN row
       /\ Ge(PrefixSum(row, i), u)
       /\ \A j \in DOMAIN row : j < i => Lt(PrefixSum(row, j), u)
       /\ u = Zero => (Gt(row[i], Zero) /\ \A j \in DOMAIN row : j < i => row[j] = Zero)

\* C6 (reached): a draw of 0 on a row whose index 0 carries no mass returns
\* index 0
C6_ZeroMassTokenReturned ==
  /\ FullRange /\ sample_call.uniform_sample = Zero
  /\ sample_call.prob[0] = Zero
  /\ sample_ret.pair = Pair(Zero, 0)

Nucleus ==
  /\ Called
  /\ Lt(Zero, sample_call.top_p) /\ Lt(sample_call.top_p, One)
  /\ Normalized(sample_call.prob)

\* the indices a filter pass collects
CandidateSet(row, cuttoff) ==
  LET data == FilterCandidates(row, cuttoff) IN
  {data[k].second : k \in 1 .. Len(data)}

\* whether the first pass (cutoff top_p / 1024) produced the returned pair
FirstPassReturns(row, top_p, u) ==
  sample_top_p_with_filter(row, top_p, u, FirstCutoff(top_p)).second >= 0
\* the cutoff of the pass that produced the returned pair
ReturningCutoff(row, top_p, u) ==
  IF FirstPassReturns(row, top_p, u) THEN FirstCutoff(top_p) ELSE Zero
\* whether a pass with this cutoff leaves through the fast exit
TakesFastExit(row, top_p, u, cuttoff) ==
  LET data == SortData(FilterCandidates(row, cuttoff)) IN
  Len(data) > 0 /\ Lt(u, Div(data[1].first, top_p))

\* the whole row, sorted as the sampler sorts
FullSorted(row) ==
  SortData([k \in 1 .. ndataOf(row) |-> Pair(row[k - 1], k - 1)])
RECURSIVE SeqSum(_, _)
SeqSum(data, k) == IF k = 0 THEN Zero ELSE Add(SeqSum(data, k - 1), data[k].first)
\* the tokens of the descending-sorted prefix whose cumulative probability
\* (through the token) is below top_p
NucleusPrefix(row, top_p) ==
  LET data == FullSorted(row) IN
  {data[k].second : k \in {h \in 1 .. Len(data) : Lt(SeqSum(data, h), top_p)}}

\* every pass the call runs collects every index at or above its cutoff
PassesCollectAll(row, top_p, u) ==
  /\ CandidateSet(row, FirstCutoff(top_p)) =
       {i \in DOMAIN row : Ge(row[i], FirstCutoff(top_p))}
  /\ ~FirstPassReturns(row, top_p, u) =>
       CandidateSet(row, Zero) = {i \in DOMAIN row : Ge(row[i], Zero)}

\* C7 (as claimed): for a normalized row, 0 < top_p < 1 and any draw, each
\* filter pass collects every index at or above its cutoff, every token of
\* the descending-sorted prefix with cumulative probability below top_p is
\* among the candidates, and the returned token is a candidate.
C7_PrefixAlwaysCollected ==
  Nucleus =>
    LET row == sample_call.prob
        top_p == sample_call.top_p
        u == sample_call.uniform_sample
        cands == CandidateSet(row, ReturningCutoff(row, top_p, u))
    IN /\ PassesCollectAll(row, top_p, u)
       /\ NucleusPrefix(row, top_p) \subseteq cands
       /\ sample_ret.pair.second \in cands

\* C7 (amended): as claimed, except that the prefix need only be among the
\* candidates when the returning pass does not leave through the fast exit.
C7_PrefixCollectedUnlessFastExit ==
  Nucleus =>
    LET row == sample_call.prob
        top_p == sample_call.top_p
        u == sample_call.uniform_sample
        c == ReturningCutoff(row, top_p, u)
        cands == CandidateSet(row, c)
    IN /\ PassesCollectAll(row, top_p, u)
       /\ ~TakesFastExit(row, top_p, u, c) => NucleusPrefix(row, top_p) \subseteq cands
       /\ sample_ret.pair.second \in cands
       /\ ~sample_ret.fatal

\* C7 (reached): the first pass yields no selection, the cutoff-0 pass
\* returns a token of a non-empty prefix without the fast exit
C7_FallbackPassReturns ==
  /\ Nucleus
  /\ ~FirstPassReturns(sample_call.prob, sample_call.top_p, sample_call.uniform_sample)
  /\ ~TakesFastExit(sample_call.prob, sample_call.top_p,
                    sample_call.uniform_sample, Zero)
  /\ NucleusPrefix(sample_call.prob, sample_call.top_p) # {}
  /\ sample_ret.pair.second >= 0

(***************************************************************************)
(* Claims about CopyProbsToCPU                                             *)
(***************************************************************************)
Copied == copy_call # NoCopy

RECURSIVE IsDoubling(_)
\* 32 * 2^k for some k >= 0
IsDoubling(capacity) ==
  \/ capacity = 32
  \/ capacity > 32 /\ capacity % 2 = 0 /\ IsDoubling(capacity \div 2)

\* C8: while the calls keep one vocab width (no check has failed), the
\* cached buffer's row capacity is 32 * 2^k, is at least the largest row
\* count requested so far, is at least what it was before the last call,
\* and a call whose row count fitted the capacity did not allocate.
C8_CapacityDoublesNeverShrinks ==
  (Copied /\ ~fatal) =>
    /\ probs_host_.defined
    /\ IsDoubling(probs_host_.shape[1])
    /\ probs_host_.shape[1] >= max_num_tokens
    /\ copy_call.before.defined =>
         /\ probs_host_.shape[1] >= copy_call.before.shape[1]
         /\ copy_call.probs_device.shape[1] <= copy_call.before.shape[1] =>
              (~copy_call.allocated /\ probs_host_ = copy_call.before)
    /\ copy_call.view = copy_call.probs_device.shape

\* C8 (reached): a 20-row call on a 64-row buffer that has held 40 rows
C8_SmallBatchAfterGrowth ==
  /\ Copied /\ ~fatal
  /\ copy_call.probs_device.shape[1] = 20
  /\ copy_call.before.defined /\ copy_call.before.shape[1] = 64
  /\ max_num_tokens = 40
  /\ probs_host_.shape[1] = 64

WidthChanged ==
  /\ Copied
  /\ copy_call.before.defined
  /\ DeviceCheck(copy_call.probs_device)
  /\ copy_call.probs_device.shape[2] # copy_call.before.shape[2]

\* C9 (as claimed): a call at a width other than the cached buffer's
\* completes, leaving a buffer of the new width and returning a view of the
\* requested rows at that width.
C9_WidthChangeRebuilds ==
  WidthChanged =>
    /\ ~fatal
    /\ probs_host_.defined
    /\ probs_host_.shape[2] = copy_call.probs_device.shape[2]
    /\ copy_call.view = copy_call.probs_device.shape

\* C9 (amended): a call at a width other than the cached buffer's fails its
\* check and aborts, leaving the cached buffer as it was; a buffer of
\* another width is only ever allocated when none is cached.
C9_WidthChangeAborts ==
  /\ WidthChanged => (fatal /\ copy_call.fatal /\ probs_host_ = copy_call.before)
  /\ (Copied /\ ~fatal /\ copy_call.before.defined) =>
       probs_host_.shape[2] = copy_call.before.shape[2]

\* C9 (reached): the process aborted on a call whose width differs from the
\* cached buffer's
C9_AbortedOnWidthChange == WidthChanged /\ fatal

(***************************************************************************)
(* Claims about BatchSampleTokens                                          *)
(***************************************************************************)
\* what the task of row i computes from row i of the batch as passed in,
\* request i's configuration and the one draw of request i's generator
ExpectedSample(i) ==
  SampleTopPFromProb(batch_call.rows[i],
                     EffectiveTopP(batch_call.generation_cfg[i]), rngs[i][1],
                     output_prob_dist.given)

\* C10: at every point of every interleaving of the tasks, slot i of the
\* token, probability and distribution outputs and generator i hold exactly
\* what task i alone has done so far -- nothing before it sampled, and
\* afterwards the values computed from row i, configuration i and the single
\* draw of generator i -- and the rows are as passed in; so the returned
\* values are the same under every interleaving.
C10_SlotsDependOnOwnRowOnly ==
  (batch_call.kind = "sample" /\ ~fatal) =>
    /\ probs_host = batch_call.rows
    /\ \A i \in Tasks :
         /\ Len(rngs[i]) = IF pc[i] = "sample" THEN 0 ELSE 1
         /\ output_prob_dist.given =>
              output_prob_dist.data[i] =
                IF pc[i] = "sample" THEN << >> ELSE ExpectedSample(i).dist
         /\ sampled_tokens[i] =
              IF pc[i] \in {"store_prob", "done"}
              THEN ExpectedSample(i).pair.second ELSE 0
         /\ output_token_probs.given =>
              output_token_probs.data[i] =
                IF pc[i] = "done" THEN ExpectedSample(i).pair.first ELSE Zero

\* C10 (reached): a call on two rows returned two different tokens with
\* both optional outputs filled in
C10_TwoRowsReturned ==
  /\ batch_call.kind = "sample" /\ returned
  /\ Tasks = {0, 1}
  /\ sampled_tokens[0] # sampled_tokens[1]
  /\ output_prob_dist.given /\ output_token_probs.given
  /\ output_token_probs.data[0] # output_token_probs.data[1]

(***************************************************************************)
(* Claims about BatchVerifyDraftTokens                                     *)
(***************************************************************************)
Verifying == batch_call.kind = "verify" /\ ~fatal

\* what the call was given for position k of sequence i
DraftToken(i, k) == batch_call.draft_output_tokens[i][k]
DraftProb(i, k) == batch_call.draft_output_token_prob[i][k]
DraftDist(i, k) == batch_call.draft_output_prob_dist[i][k]
TargetRow(i, k) == batch_call.rows[batch_call.cum_verify_lengths[i] + k]
TargetProb(i, k) == TargetRow(i, k)[DraftToken(i, k)]
\* the row of position k of sequence i as it stands now
CurrentRow(i, k) == probs_host[batch_call.cum_verify_lengths[i] + k]
DraftPositions(i) == 0 .. DraftLen(i) - 1
\* the first n draft tokens of sequence i, as a list
DraftPrefix(i, n) == [j \in 1 .. n |-> DraftToken(i, j - 1)]

\* p >= q at every draft position of sequence i
Dominated(i) == \A k \in DraftPositions(i) : Ge(TargetProb(i, k), DraftProb(i, k))

\* C1: a sequence with p >= q at every draft position never draws, never
\* leaves the accept path, has none of its rows modified, and commits and
\* returns its draft tokens in draft order: all of them once its task ends.
C1_DominatedDraftAcceptedWhole ==
  Verifying =>
    \A i \in Tasks :
      Dominated(i) =>
        /\ rngs[i] = << >>
        /\ pc[i] \in {"verify", "done"}
        /\ \A k \in DraftPositions(i) : CurrentRow(i, k) = TargetRow(i, k)
        /\ accepted_tokens[i] = DraftPrefix(i, cur_token_idx[i])
        /\ request_mstates[i] = DraftPrefix(i, cur_token_idx[i])
        /\ \A j \in 1 .. Len(verify_log[i]) : verify_log[i][j].outcome = "accept"
        /\ pc[i] = "done" => cur_token_idx[i] = DraftLen(i)

\* C1 (reached): the call returned for a sequence of two draft positions,
\* one with p = q and one with p > q, both accepted
C1_TwoPositionsAccepted ==
  /\ Verifying /\ returned
  /\ \E i \in Tasks :
       /\ DraftLen(i) = 2 /\ Dominated(i)
       /\ \E k \in DraftPositions(i) : TargetProb(i, k) = DraftProb(i, k)
       /\ \E k \in DraftPositions(i) : Gt(TargetProb(i, k), DraftProb(i, k))
       /\ Len(accepted_tokens[i]) = 2

\* the position sequence i was rejected at, -1 if none was
RejectedAt(i) ==
  IF \E j \in 1 .. Len(verify_log[i]) : verify_log[i][j].outcome = "reject"
  THEN verify_log[i][CHOOSE j \in 1 .. Len(verify_log[i]) :
                       verify_log[i][j].outcome = "reject"].pos
  ELSE -1
\* the draws the acceptance tests of sequence i took
TestDraws(i) ==
  Cardinality({j \in 1 .. Len(verify_log[i]) : verify_log[i][j].outcome # "accept"})

\* C2: the task of a sequence decides positions 0, 1, 2, ... in that order;
\* a rejection is the last position it decides, and from then on the
\* sequence's commits stay at the k accepted tokens until exactly one more
\* is committed, its draws at the test draws until exactly one more is
\* taken, and only row k of its rows is ever overwritten, once.
C2_RejectionEndsSequence ==
  Verifying =>
    \A i \in Tasks :
      /\ \A j \in 1 .. Len(verify_log[i]) : verify_log[i][j].pos = j - 1
      /\ Len(verify_log[i]) <= DraftLen(i)
      /\ RejectedAt(i) # -1 =>
           LET k == RejectedAt(i) IN
           /\ Len(verify_log[i]) = k + 1
           /\ cur_token_idx[i] = k
           /\ pc[i] \in {"residual", "resample", "done"}
           /\ Len(request_mstates[i]) = IF pc[i] = "done" THEN k + 1 ELSE k
           /\ Len(accepted_tokens[i]) = IF pc[i] = "done" THEN k + 1 ELSE k
           /\ Len(rngs[i]) = TestDraws(i) + IF pc[i] = "done" THEN 1 ELSE 0
           /\ \A m \in DraftPositions(i) : m # k => CurrentRow(i, m) = TargetRow(i, m)
           /\ CurrentRow(i, k) = IF pc[i] = "residual" THEN TargetRow(i, k)
                                 ELSE Residual(TargetRow(i, k), DraftDist(i, k))

\* C2 (reached): the call returned for a sequence of two positions that
\* was rejected at the first one
C2_RejectedBeforeLastPosition ==
  /\ Verifying /\ returned
  /\ \E i \in Tasks :
       /\ DraftLen(i) = 2 /\ RejectedAt(i) = 0
       /\ Len(request_mstates[i]) = 1

\* position k of sequence i has q = 1 with a one-hot draft distribution and
\* a target row that gives the draft token probability 0
CertainDraftImpossibleTarget(i, k) ==
  /\ DraftProb(i, k) = One
  /\ DraftDist(i, k) = [t \in Tokens |-> IF t = DraftToken(i, k) THEN One ELSE Zero]
  /\ TargetProb(i, k) = Zero

\* C3: a position with q = 1 (one-hot draft distribution) and p = 0 is
\* rejected whatever the draw, and the residual row built for it has zero
\* mass at the rejected token.
C3_ImpossibleTokenRejected ==
  Verifying =>
    \A i \in Tasks :
      \A j \in 1 .. Len(verify_log[i]) :
        LET k == verify_log[i][j].pos IN
        CertainDraftImpossibleTarget(i, k) =>
          /\ verify_log[i][j].outcome = "reject"
          /\ pc[i] \in {"resample", "done"} =>
               /\ CurrentRow(i, k)[DraftToken(i, k)] = Zero
               /\ Normalized(CurrentRow(i, k))

\* C3 (reached): such a position was rejected on a draw of 0 and the call
\* returned
C3_ImpossibleTokenRejectedOnZeroDraw ==
  /\ Verifying /\ returned
  /\ \E i \in Tasks :
       /\ RejectedAt(i) # -1
       /\ CertainDraftImpossibleTarget(i, RejectedAt(i))
       /\ rngs[i][Len(rngs[i]) - 1] = Zero

\* the token the resampling of sequence i returns for its last draw
Replacement(i) ==
  SampleTopPFromProb(CurrentRow(i, RejectedAt(i)),
                     EffectiveTopP(batch_call.generation_cfg[i]),
                     rngs[i][Len(rngs[i])], FALSE).pair.second

\* C4: every accepted position commits and appends its draft token; a
\* rejected position commits the token sampled from the residual row and
\* appends the rejected draft token.
C4_CommitsReplacementReturnsDraft ==
  Verifying =>
    \A i \in Tasks :
      LET accepted == IF RejectedAt(i) = -1 THEN Len(verify_log[i]) ELSE RejectedAt(i)
      IN /\ \A j \in 1 .. accepted :
              /\ request_mstates[i][j] = DraftToken(i, j - 1)
              /\ accepted_tokens[i][j] = DraftToken(i, j - 1)
         /\ (RejectedAt(i) # -1 /\ pc[i] = "done") =>
              /\ request_mstates[i][accepted + 1] = Replacement(i)
              /\ accepted_tokens[i][accepted + 1] = DraftToken(i, accepted)

\* C4 (reached): the call returned a list whose last id is a rejected draft
\* token while another token was committed, after an accepted position
C4_CommittedDiffersFromReturned ==
  /\ Verifying /\ returned
  /\ \E i \in Tasks :
       /\ RejectedAt(i) = 1
       /\ request_mstates[i][2] # accepted_tokens[i][2]
       /\ request_mstates[i][1] = accepted_tokens[i][1]

(***************************************************************************)
(* Claims about both batch operations                                      *)
(***************************************************************************)
Greedy(cfg) == Lt(cfg.temperature, eps_)

\* the token sampled from the row for request configuration cfg and draw u
TokenFor(row, cfg, u) ==
  SampleTopPFromProb(row, EffectiveTopP(cfg), u, FALSE).pair.second

\* the token is the same for every configured top_p and every draw
SameForEveryTopPAndDraw(row, cfg, token) ==
  \A top_p \in TopPs, u \in Draws :
    TokenFor(row, [temperature |-> cfg.temperature, top_p |-> top_p], u) = token

\* C11: for a request with temperature below eps_, the token that
\* BatchSampleTokens stores, and the replacement that BatchVerifyDraftTokens
\* commits on rejection, is the first maximum of the row that is sampled
\* (the batch row, or the residual row), with probability 1.0, and is the
\* same for every configured top_p and every draw.
C11_GreedyBelowEps ==
  /\ (batch_call.kind = "sample" /\ ~fatal) =>
       \A i \in Tasks :
         (Greedy(batch_call.generation_cfg[i]) /\ pc[i] # "sample") =>
           /\ sample_result[i] = Pair(One, FirstMaxIndex(batch_call.rows[i]))
           /\ SameForEveryTopPAndDraw(batch_call.rows[i], batch_call.generation_cfg[i],
                                      sample_result[i].second)
           /\ pc[i] \in {"store_prob", "done"} =>
                sampled_tokens[i] = FirstMaxIndex(batch_call.rows[i])
  /\ Verifying =>
       \A i \in Tasks :
         (Greedy(batch_call.generation_cfg[i]) /\ RejectedAt(i) # -1 /\ pc[i] = "done") =>
           LET k == RejectedAt(i)
               residual == Residual(TargetRow(i, k), DraftDist(i, k))
           IN /\ request_mstates[i][k + 1] = FirstMaxIndex(residual)
              /\ SameForEveryTopPAndDraw(residual, batch_call.generation_cfg[i],
                                         request_mstates[i][k + 1])

\* C11 (reached): a rejected sequence with temperature below eps_ committed
\* a replacement other than the token its configured top_p would have
\* given for the draw that was taken
C11_GreedyReplacementCommitted ==
  /\ Verifying /\ returned
  /\ \E i \in Tasks :
       /\ Greedy(batch_call.generation_cfg[i]) /\ RejectedAt(i) # -1
       /\ request_mstates[i][RejectedAt(i) + 1] #
            SampleTopPFromProb(CurrentRow(i, RejectedAt(i)),
                               batch_call.generation_cfg[i].top_p,
                               rngs[i][Len(rngs[i])], FALSE).pair.second

\* a batch call was made with a distribution tensor resident on the host
HostInput == batch_call # NoBatch /\ batch_call.probs_device.device = kDLCPU

\* C12 (as claimed): a call of either batch operation on a host-resident
\* (n, vocab_size) tensor does not abort, and its parallel loop runs one
\* task per row (BatchSampleTokens) or per sequence (BatchVerifyDraftTokens)
\* over the rows passed in.
C12_HostInputSampled ==
  HostInput =>
    /\ ~copy_call.fatal
    /\ copy_call.view = batch_call.probs_device.shape
    /\ batch_call.kind = "sample" => Tasks = 0 .. batch_call.probs_device.shape[1] - 1
    /\ batch_call.kind = "verify" => Tasks = {0, 1}

\* C12 (reached): the first call of a sampler, on a host-resident tensor
\* with at least one row, aborted in CopyProbsToCPU and no task ran
C12_HostInputAborts ==
  /\ HostInput /\ fatal /\ copy_call.fatal
  /\ batch_call.probs_device.shape[1] > 0
  /\ ~copy_call.before.defined
  /\ Tasks = {}

(***************************************************************************)
(* Further claims about BatchVerifyDraftTokens                             *)
(***************************************************************************)
\* the number of the first j decisions of sequence i that took a draw
RECURSIVE DrawsThrough(_, _)
DrawsThrough(i, j) ==
  IF j = 0 THEN 0
  ELSE DrawsThrough(i, j - 1) + IF verify_log[i][j].outcome = "accept" THEN 0 ELSE 1

\* C13: at every decided position, with p and q the target and draft
\* probabilities of the draft token as passed in: the position is accepted
\* without a draw iff p >= q; otherwise exactly one draw r is taken and the
\* position is accepted iff r < p / (q + eps_); the sequence's generator
\* has yielded those draws and, once a rejection has resampled, exactly one
\* more.
C13_AcceptanceRule ==
  Verifying =>
    \A i \in Tasks :
      /\ \A j \in 1 .. Len(verify_log[i]) :
           LET k == verify_log[i][j].pos
               p == TargetProb(i, k)
               q == DraftProb(i, k)
               outcome == verify_log[i][j].outcome
           IN /\ outcome = "accept" <=> Ge(p, q)
              /\ outcome # "accept" =>
                   LET r == rngs[i][DrawsThrough(i, j)] IN
                   /\ DrawsThrough(i, j) = DrawsThrough(i, j - 1) + 1
                   /\ outcome = "accept on draw" <=> Lt(r, Div(p, Add(q, eps_)))
                   /\ outcome = "reject" <=> ~Lt(r, Div(p, Add(q, eps_)))
              /\ outcome = "accept" => DrawsThrough(i, j) = DrawsThrough(i, j - 1)
      /\ Len(rngs[i]) =
           DrawsThrough(i, Len(verify_log[i])) +
             IF RejectedAt(i) # -1 /\ pc[i] = "done" THEN 1 ELSE 0
      /\ Len(accepted_tokens[i]) =
           Cardinality({j \in 1 .. Len(verify_log[i]) :
                          verify_log[i][j].outcome # "reject"}) +
             IF RejectedAt(i) # -1 /\ pc[i] = "done" THEN 1 ELSE 0

\* C13 (reached): the call returned for a sequence that accepted its first
\* position on a draw and rejected its second, three draws in all
C13_AcceptedOnDrawThenRejected ==
  /\ Verifying /\ returned
  /\ \E i \in Tasks :
       /\ Len(verify_log[i]) = 2
       /\ verify_log[i][1].outcome = "accept on draw"
       /\ verify_log[i][2].outcome = "reject"
       /\ Len(rngs[i]) = 3

(***************************************************************************)
(* Further claims about SampleTopPFromProb                                 *)
(***************************************************************************)
\* one pass of the full procedure: the filter and sort, the top_p_sum loop
\* and the selection loop, without the fast exit
FullProcedurePass(p_prob, top_p, uniform_sample, cuttoff) ==
  LET data == SortData(FilterCandidates(p_prob, cuttoff)) IN
  IF Len(data) = 0 THEN NoSelection
  ELSE LET r == TopPSumLoop(data, 1, Zero, Zero, top_p) IN
       IF Insufficient(r.cum_sum_prob, top_p, cuttoff) THEN NoSelection
       ELSE SelectLoop(r.data, 1, Zero, r.top_p_sum, uniform_sample)

\* the full procedure with its retry at cutoff 0
FullProcedure(p_prob, top_p, uniform_sample) ==
  LET first_try == FullProcedurePass(p_prob, top_p, uniform_sample, FirstCutoff(top_p))
  IN IF first_try.second >= 0 THEN first_try
     ELSE FullProcedurePass(p_prob, top_p, uniform_sample, Zero)

\* the call returned through the fast exit
ReturnedByFastExit ==
  /\ Nucleus
  /\ TakesFastExit(sample_call.prob, sample_call.top_p, sample_call.uniform_sample,
                   ReturningCutoff(sample_call.prob, sample_call.top_p,
                                   sample_call.uniform_sample))

\* C14 (as claimed): for a normalized row, 0 < top_p < 1 and a draw below
\* candidates[0].probability / top_p, the token the fast exit returns is the
\* token the full procedure returns for that draw.
C14_FastExitMatchesFullProcedure ==
  ReturnedByFastExit =>
    sample_ret.pair.second =
      FullProcedure(sample_call.prob, sample_call.top_p,
                    sample_call.uniform_sample).second

\* C14 (reached): the fast exit returned the top candidate for a draw that
\* the full procedure maps to another token of the row
C14_FastExitReturnsOtherToken ==
  /\ ReturnedByFastExit
  /\ LET full == FullProcedure(sample_call.prob, sample_call.top_p,
                               sample_call.uniform_sample)
     IN /\ full.second >= 0
        /\ full.second # sample_ret.pair.second
        /\ Gt(sample_call.prob[full.second], Zero)

\* the candidates of the first pass (cutoff top_p / 1024), sorted, and
\* whether there are none or they sum to less than top_p
FirstPassData(row, top_p) == SortData(FilterCandidates(row, FirstCutoff(top_p)))
FirstPassFallsShort(row, top_p) ==
  LET data == FirstPassData(row, top_p) IN
  Len(data) = 0 \/ Lt(SeqSum(data, Len(data)), top_p)

\* the passes a call runs
PassesRun(row, top_p, u) == IF FirstPassReturns(row, top_p, u) THEN 1 ELSE 2

\* C15 (as claimed): for a normalized row and 0 < top_p < 1, a first pass
\* that collects no candidate or whose candidates sum to less than top_p
\* yields no selection and the call returns what the pass with cutoff 0
\* returns; the cutoff-0 pass returns a valid index, so the call returns a
\* valid index after at most two passes.
C15_ShortFirstPassRetried ==
  Nucleus =>
    LET row == sample_call.prob
        top_p == sample_call.top_p
        u == sample_call.uniform_sample
        retry == sample_top_p_with_filter(row, top_p, u, Zero)
    IN /\ FirstPassFallsShort(row, top_p) =>
            /\ sample_top_p_with_filter(row, top_p, u, FirstCutoff(top_p)) = NoSelection
            /\ PassesRun(row, top_p, u) = 2
            /\ sample_ret.pair = retry
       /\ retry.second \in DOMAIN row
       /\ ~sample_ret.fatal /\ sample_ret.pair.second \in DOMAIN row

\* C15 (amended): as claimed, for a first pass that does not leave through
\* the fast exit; one that does returns its top candidate after a single
\* pass, whether or not its candidates sum to top_p.  A first pass whose
\* candidates sum to top_p or more always returns.
C15_ShortFirstPassRetriedUnlessFastExit ==
  Nucleus =>
    LET row == sample_call.prob
        top_p == sample_call.top_p
        u == sample_call.uniform_sample
        first_try == sample_top_p_with_filter(row, top_p, u, FirstCutoff(top_p))
        retry == sample_top_p_with_filter(row, top_p, u, Zero)
        fast == TakesFastExit(row, top_p, u, FirstCutoff(top_p))
    IN /\ (FirstPassFallsShort(row, top_p) /\ ~fast) =>
            /\ first_try = NoSelection
            /\ PassesRun(row, top_p, u) = 2
            /\ sample_ret.pair = retry
       /\ (~FirstPassFallsShort(row, top_p) \/ fast) =>
            /\ first_try.second \in DOMAIN row
            /\ PassesRun(row, top_p, u) = 1
            /\ sample_ret.pair = first_try
       /\ fast => sample_ret.pair = Pair(FirstPassData(row, top_p)[1].first,
                                        FirstPassData(row, top_p)[1].second)
       /\ retry.second \in DOMAIN row
       /\ ~sample_ret.fatal /\ sample_ret.pair.second \in DOMAIN row

\* C15 (reached): a first pass whose single candidate sums to less than
\* top_p yielded no selection, and the cutoff-0 pass returned a token that
\* the first pass had filtered out
C15_RetryReturnsFilteredToken ==
  /\ Nucleus
  /\ FirstPassFallsShort(sample_call.prob, sample_call.top_p)
  /\ Len(FirstPassData(sample_call.prob, sample_call.top_p)) = 1
  /\ PassesRun(sample_call.prob, sample_call.top_p, sample_call.uniform_sample) = 2
  /\ sample_ret.pair.second \in DOMAIN sample_call.prob
  /\ sample_ret.pair.second \notin
       CandidateSet(sample_call.prob, FirstCutoff(sample_call.top_p))

\* the tokens of the shortest descending-sorted prefix of the row whose
\* cumulative probability reaches top_p: those with less than top_p before
\* them
ReachingPrefix(row, top_p) ==
  LET data == FullSorted(row) IN
  {data[k].second : k \in {h \in 1 .. Len(data) : Lt(SeqSum(data, h - 1), top_p)}}

\* C17: for a normalized row, 0 < top_p < 1 and a draw in [0, 1), the call
\* returns a token of the shortest descending-sorted prefix whose cumulative
\* probability reaches top_p, with the row's own value at that token, on the
\* fast exit and on the cumulative walk; [0.5, 0.3, 0.2] with top_p = 0.7
\* and draw 0.1 returns (0.5, index 0).
C17_RawProbabilityOfNucleusToken ==
  /\ Nucleus =>
       LET row == sample_call.prob
           i == sample_ret.pair.second
       IN /\ ~sample_ret.fatal
          /\ i \in DOMAIN row
          /\ sample_ret.pair.first = row[i]
          /\ i \in ReachingPrefix(row, sample_call.top_p)
  /\ (Called /\ sample_call.prob = ExampleRow /\ sample_call.top_p = Rat(7, 10)
        /\ sample_call.uniform_sample = Rat(1, 10)) =>
       sample_ret.pair = Pair(Rat(5, 10), 0)

\* C17 (reached): the cumulative walk returned the second candidate of
\* [0.5, 0.3, 0.2] for top_p = 0.7, with probability 0.3 and not 0.3 / 0.8
C17_WalkReturnsSecondCandidate ==
  /\ Nucleus /\ ~ReturnedByFastExit
  /\ sample_call.prob = ExampleRow /\ sample_call.top_p = Rat(7, 10)
  /\ sample_ret.pair = Pair(Rat(3, 10), 1)

(***************************************************************************)
(* Claims about the rows and the results of BatchVerifyDraftTokens         *)
(***************************************************************************)
\* the rows of sequence i: cum_verify_lengths[i] .. cum_verify_lengths[i+1] - 1
RowRange(i) == VerifyStart(i) .. VerifyEnd(i) - 1

\* row k of sequence i as the call must leave it standing: the residual of
\* the row as passed in if the sequence was rejected at k and its task is
\* past the overwrite, the row as passed in otherwise
ExpectedRow(i, k) ==
  IF RejectedAt(i) = k /\ pc[i] \in {"resample", "done"}
  THEN Residual(TargetRow(i, k), DraftDist(i, k))
  ELSE TargetRow(i, k)

\* what the task of sequence i commits when it runs alone on the rows as
\* passed in, from position k on, given the draws of its generator
RECURSIVE CommitsAlone(_, _, _, _)
CommitsAlone(i, k, draws, commits) ==
  IF k >= DraftLen(i) THEN commits
  ELSE LET p == TargetProb(i, k)
           q == DraftProb(i, k)
       IN IF Ge(p, q)
          THEN CommitsAlone(i, k + 1, draws, Append(commits, DraftToken(i, k)))
          ELSE IF Lt(draws[1], Div(p, Add(q, eps_)))
          THEN CommitsAlone(i, k + 1, Tail(draws), Append(commits, DraftToken(i, k)))
          ELSE Append(commits,
                      TokenFor(Residual(TargetRow(i, k), DraftDist(i, k)),
                               batch_call.generation_cfg[i], draws[2]))

\* C16: the row a task works on lies in its own sequence's range, the
\* ranges of different sequences are disjoint and together they are the
\* batch; at every point of every interleaving each row is the row as
\* passed in, except the one row cum_verify_lengths[i] + k of a sequence
\* rejected at k, which is max(p - q, 0) normalized to sum to 1; and when
\* the call returns, each sequence has committed what its task commits
\* running alone with the same draws.
C16_RejectionOverwritesOwnRow ==
  Verifying =>
    /\ \A i \in Tasks :
         pc[i] # "done" =>
           RowIndex(VerifyStart(i), cur_token_idx[i]) \in RowRange(i)
    /\ \A i \in Tasks, j \in Tasks : i # j => RowRange(i) \cap RowRange(j) = {}
    /\ DOMAIN probs_host = UNION {RowRange(i) : i \in Tasks}
    /\ \A i \in Tasks :
         \A k \in DraftPositions(i) :
           /\ CurrentRow(i, k) = ExpectedRow(i, k)
           /\ CurrentRow(i, k) # TargetRow(i, k) =>
                /\ Normalized(CurrentRow(i, k))
                /\ \A t \in Tokens : Ge(CurrentRow(i, k)[t], Zero)
    /\ returned =>
         \A i \in Tasks : request_mstates[i] = CommitsAlone(i, 0, rngs[i], << >>)

\* C16 (reached): the call returned with both sequences rejected, each with
\* its own row overwritten by a residual that differs from the row passed in
C16_TwoSequencesOverwroteOwnRows ==
  /\ Verifying /\ returned
  /\ \A i \in Tasks :
       /\ RejectedAt(i) = 0
       /\ CurrentRow(i, 0) # TargetRow(i, 0)
       /\ CurrentRow(i, 0) = Residual(TargetRow(i, 0), DraftDist(i, 0))
  /\ Tasks = {0, 1}

\* C18: the list returned for a sequence is a prefix of its draft tokens,
\* no longer than its draft; as many tokens were committed to the sequence
\* during the call as the list holds, and they are the list's tokens at
\* every position but, possibly, the last.  (It holds while the tasks run
\* as well as after the return.)
C18_ReturnedListIsDraftPrefix ==
  Verifying =>
    \A i \in Tasks :
      LET n == Len(accepted_tokens[i]) IN
      /\ n <= DraftLen(i)
      /\ n <= batch_call.cum_verify_lengths[i + 1] - batch_call.cum_verify_lengths[i]
      /\ accepted_tokens[i] = DraftPrefix(i, n)
      /\ Len(request_mstates[i]) = n
      /\ \A j \in 1 .. n - 1 : request_mstates[i][j] = accepted_tokens[i][j]
      /\ (n > 0 /\ request_mstates[i][n] # accepted_tokens[i][n]) =>
           RejectedAt(i) = n - 1

\* C18 (reached): the call returned an empty list for a sequence without
\* draft tokens and, for the other, a two-token list whose last token is
\* not the one committed
C18_EmptyAndRejectedSequences ==
  /\ Verifying /\ returned
  /\ \E i \in Tasks, j \in Tasks :
       /\ DraftLen(i) = 0 /\ accepted_tokens[i] = << >> /\ request_mstates[i] = << >>
       /\ Len(accepted_tokens[j]) = 2
       /\ request_mstates[j][2] # accepted_tokens[j][2]

\* C19 (as claimed): with q the draft distribution's value at the draft
\* token, the replacement committed for a rejected position is never the
\* rejected draft token, whatever the configured top_p and the draws.
C19_ReplacementDiffersFromRejected ==
  Verifying =>
    \A i \in Tasks :
      (RejectedAt(i) # -1 /\ pc[i] = "done") =>
        /\ DraftProb(i, RejectedAt(i)) = DraftDist(i, RejectedAt(i))[DraftToken(i, RejectedAt(i))]
        /\ request_mstates[i][RejectedAt(i) + 1] # DraftToken(i, RejectedAt(i))

\* C19 (reached): a rejected sequence with top_p = 1 drew 0 for the
\* resampling and committed the rejected draft token, which has
\* probability 0 in the residual row
C19_RejectedTokenCommitted ==
  /\ Verifying /\ returned
  /\ \E i \in Tasks :
       /\ RejectedAt(i) # -1
       /\ ~Greedy(batch_call.generation_cfg[i])
       /\ Ge(batch_call.generation_cfg[i].top_p, one)
       /\ rngs[i][Len(rngs[i])] = Zero
       /\ CurrentRow(i, RejectedAt(i))[DraftToken(i, RejectedAt(i))] = Zero
       /\ request_mstates[i][RejectedAt(i) + 1] = DraftToken(i, RejectedAt(i))

====
